---- MODULE Spec2Model ----
(***************************************************************************)
(* Model of src/core-js-dates-tasks.js: date utilities built on the        *)
(* ECMAScript Date object.                                                 *)
(*                                                                         *)
(* A Date object is modelled by its time value.  The unit of the time      *)
(* value is one hour (24 per day) instead of one millisecond, so that the  *)
(* values stay inside TLC's integers; the local time zone is UTC, without  *)
(* daylight saving.  The Date operations are the ECMAScript abstract       *)
(* operations (Day, TimeWithinDay, DayFromYear, YearFromTime,              *)
(* MonthFromTime, DateFromTime, WeekDay, MakeDay), including the overflow  *)
(* normalisation of new Date(y, m, d), setDate and setMonth.               *)
(*                                                                         *)
(* A JavaScript string is a sequence of one-character strings.             *)
(*                                                                         *)
(* A loop is the repetition (Repeat) of a step operator on the record of   *)
(* the variables the loop updates; the step is one pass through the loop:  *)
(* the test of the loop's condition, the body and the increment.  A pass   *)
(* after the loop has ended leaves the record unchanged.                   *)
(***************************************************************************)
EXTENDS Integers, Sequences, FiniteSets

VARIABLES call, args, heap, ret

vars == <<call, args, heap, ret>>

(***************************************************************************)
(* Bounds of the explored inputs.                                          *)
(***************************************************************************)
FirstYear == 2023
LastYear == 2024
MaxSpan == 6
MaxWorkDays == 2
MaxOffDays == 2
MaxWhile == 64

\* Times of day (in hours) of the Date arguments.
TimesOfDay == {0, 12}

\* Years of the (month, year) arguments: the explored years and the
\* century years that separate the Gregorian rule from "divisible by 4".
CenturyYears == {1900, 2000, 2100}

(***************************************************************************)
(* ECMAScript Date arithmetic.                                             *)
(***************************************************************************)
Day(t) == t \div 24

TimeWithinDay(t) == t % 24

DayFromYear(y) ==
    365 * (y - 1970) + ((y - 1969) \div 4) - ((y - 1901) \div 100)
        + ((y - 1601) \div 400)

DaysInYear(y) ==
    IF y % 4 # 0 THEN 365
    ELSE IF y % 100 # 0 THEN 366
    ELSE IF y % 400 # 0 THEN 365
    ELSE 366

InLeapYear(y) == IF DaysInYear(y) = 366 THEN 1 ELSE 0

\* The year of day number d: the y with DayFromYear(y) <= d < DayFromYear(y+1),
\* found among the three years around the estimate d / 365.
YearFromDay(d) ==
    LET g == 1970 + (d \div 365)
    IN  IF DayFromYear(g + 1) <= d THEN g + 1
        ELSE IF DayFromYear(g) <= d THEN g
        ELSE g - 1

\* Day within a common year of the first day of month m (0..11); index 12
\* is the length of the year.
MonthStartTable ==
    <<0, 31, 59, 90, 120, 151, 181, 212, 243, 273, 304, 334, 365>>

MonthStart(m, leap) ==
    MonthStartTable[m + 1] + (IF m >= 2 THEN leap ELSE 0)

\* The month of day number d: the m with MonthStart(m) <= day within year <
\* MonthStart(m+1), found among the two months around the estimate dwy / 31.
MonthFromDay(d) ==
    LET y == YearFromDay(d)
        dwy == d - DayFromYear(y)
        g == dwy \div 31
    IN  IF MonthStart(g + 1, InLeapYear(y)) <= dwy THEN g + 1 ELSE g

DateFromDay(d) ==
    LET y == YearFromDay(d)
    IN  d - DayFromYear(y) - MonthStart(MonthFromDay(d), InLeapYear(y)) + 1

MakeDay(year, month, date) ==
    LET ym == year + (month \div 12)
        mn == month % 12
    IN  DayFromYear(ym) + MonthStart(mn, InLeapYear(ym)) + date - 1

\* new Date(year, month, date) of a four-digit year: local midnight.
NewDate(year, month, date) == MakeDay(year, month, date) * 24

getFullYear(t) == YearFromDay(Day(t))

getMonth(t) == MonthFromDay(Day(t))

getDate(t) == DateFromDay(Day(t))

getDay(t) == (Day(t) + 4) % 7

\* date.setDate(dt): the time value the object holds afterwards.
setDate(t, dt) ==
    MakeDay(getFullYear(t), getMonth(t), dt) * 24 + TimeWithinDay(t)

\* date.setMonth(m): the time value the object holds afterwards.
setMonth(t, m) ==
    MakeDay(getFullYear(t), m, getDate(t)) * 24 + TimeWithinDay(t)

(***************************************************************************)
(* JavaScript values: a value carries its type.  An object value names the *)
(* object in the heap it refers to.                                        *)
(***************************************************************************)
JSNumber(n) == [type |-> "number", value |-> n]

JSBoolean(b) == [type |-> "boolean", value |-> b]

JSObject(ref) == [type |-> "object", value |-> ref]

JSArray(seq) == [type |-> "array", value |-> seq]

JSUndefined == [type |-> "undefined", value |-> "undefined"]

(***************************************************************************)
(* Loops.                                                                  *)
(***************************************************************************)
\* The record after n passes of Step from the record st; Step is a function
\* from the record before a pass to the record after it.  The passes are
\* split in two halves; the record between the halves is bound by CHOOSE,
\* which evaluates it once.
RECURSIVE Repeat(_, _, _)
Repeat(Step, n, st) ==
    IF n <= 0 THEN st
    ELSE IF n = 1 THEN Step[st]
    ELSE CHOOSE out \in {Repeat(Step, n - (n \div 2), half) :
             half \in {Repeat(Step, n \div 2, st)}} : TRUE

(***************************************************************************)
(* Inputs.                                                                 *)
(***************************************************************************)
InputDays == MakeDay(FirstYear, 0, 1)..(MakeDay(LastYear + 1, 0, 1) - 1)

InputDates == {d * 24 + h : d \in InputDays, h \in TimesOfDay}

\* The Date arguments of the functions that read only the calendar day of
\* their argument: local midnight of every explored day.
MidnightDates == {d * 24 : d \in InputDays}

InputYears == (FirstYear..LastYear) \cup CenturyYears

\* The first days of the periods of getWorkSchedule: the days of LastYear.
ScheduleStartDays == MakeDay(LastYear, 0, 1)..(MakeDay(LastYear + 1, 0, 1) - 1)

(***************************************************************************)
(* getNextFriday(date): mutates the object `date` and returns it.          *)
(* st = [date, day, dayName]: the time value of the object `date` and the  *)
(* two local variables.  The result is the record when the while loop has  *)
(* ended, or after MaxWhile passes.                                        *)
(***************************************************************************)
\* One pass of the while loop of lines 69-72.
NextFridayStep ==
    [st \in [date : Int, day : Int, dayName : Int] |->
        IF st.dayName # 5
        THEN [date |-> setDate(st.date, st.day),
              day |-> st.day + 1,
              dayName |-> getDay(setDate(st.date, st.day))]
        ELSE st]

getNextFriday(t) ==
    Repeat(NextFridayStep, MaxWhile,
           [date |-> setDate(t, getDate(t) + 1),
            day |-> getDate(t) + 1,
            dayName |-> getDay(setDate(t, getDate(t) + 1))])

\* The call returns when the loop has ended.
CallGetNextFriday ==
    \E t \in InputDates :
        /\ call = "none"
        /\ \E r \in {getNextFriday(t)} :
               /\ r.dayName = 5
               /\ heap' = [date |-> r.date]
        /\ call' = "getNextFriday"
        /\ args' = [date |-> t]
        /\ ret' = JSObject("date")

(***************************************************************************)
(* getQuarter(date)                                                        *)
(***************************************************************************)
getQuarter(t) ==
    LET year == getFullYear(t)
        quarter == NewDate(year, 2, 31)
    IN  IF t <= quarter THEN 1
        ELSE IF t > quarter /\ t <= NewDate(year, 5, 31) THEN 2
        ELSE IF t > NewDate(year, 5, 31) /\ t <= NewDate(year, 8, 31) THEN 3
        ELSE 4

CallGetQuarter ==
    \E t \in InputDates :
        /\ call = "none"
        /\ call' = "getQuarter"
        /\ args' = [date |-> t]
        /\ heap' = [date |-> t]
        /\ ret' = JSNumber(getQuarter(t))

(***************************************************************************)
(* getCountDaysInMonth(month, year), month 1..12                           *)
(***************************************************************************)
getCountDaysInMonth(month, year) == getDate(NewDate(year, month, 0))

CallGetCountDaysInMonth ==
    \E month \in 1..12, year \in InputYears :
        /\ call = "none"
        /\ call' = "getCountDaysInMonth"
        /\ args' = [month |-> month, year |-> year]
        /\ heap' = <<>>
        /\ ret' = JSNumber(getCountDaysInMonth(month, year))

(***************************************************************************)
(* isLeapYear(date)                                                        *)
(***************************************************************************)
\* isLeapYear with the rule "divisible by 4" alone.
isLeapYearDiv4(t) ==
    LET year == getFullYear(t)
    IN  year % 4 = 0

isLeapYear(t) ==
    LET year == getFullYear(t)
    IN  IF year % 4 # 0 THEN FALSE
        ELSE IF year % 100 # 0 THEN TRUE
        ELSE IF year % 400 # 0 THEN FALSE
        ELSE TRUE

\* The Date arguments of isLeapYear: the explored dates and the first
\* day of every month of the century years.
LeapYearDates ==
    InputDates \cup {NewDate(y, m, 1) : y \in CenturyYears, m \in 0..11}

CallIsLeapYear ==
    \E t \in LeapYearDates :
        /\ call = "none"
        /\ call' = "isLeapYear"
        /\ args' = [date |-> t]
        /\ heap' = [date |-> t]
        /\ ret' = JSBoolean(isLeapYear(t))

(***************************************************************************)
(* getCountWeekendsInMonth(month, year), month 1..12                       *)
(* st = [i, count, date].                                                  *)
(***************************************************************************)
IsWeekend(t) == getDay(t) = 0 \/ getDay(t) = 6

\* One pass of the for loop of lines 166-170.
WeekendsStep(days) ==
    [st \in [i : Int, count : Int, date : Int] |->
        IF st.i <= days
        THEN [i |-> st.i + 1,
              count |-> IF IsWeekend(st.date) THEN st.count + 1 ELSE st.count,
              date |-> setDate(st.date, st.i)]
        ELSE st]

\* The loop from i = first on, and the test of lines 171-172 after it.
WeekendsFrom(first, month, year) ==
    LET days == getDate(NewDate(year, month, 0))
        st == Repeat(WeekendsStep(days), days - first + 1,
                     [i |-> first, count |-> 0,
                      date |-> NewDate(year, month - 1, 1)])
    IN  IF IsWeekend(st.date) THEN st.count + 1 ELSE st.count

\* getCountWeekendsInMonth with the loop started at i = 1: the first day is
\* examined twice.
getCountWeekendsInMonthFromOne(month, year) == WeekendsFrom(1, month, year)

getCountWeekendsInMonth(month, year) == WeekendsFrom(2, month, year)

CallGetCountWeekendsInMonth ==
    \E month \in 1..12, year \in InputYears :
        /\ call = "none"
        /\ call' = "getCountWeekendsInMonth"
        /\ args' = [month |-> month, year |-> year]
        /\ heap' = <<>>
        /\ ret' = JSNumber(getCountWeekendsInMonth(month, year))

(***************************************************************************)
(* getWeekNumberByDate(date)                                               *)
(***************************************************************************)
\* One pass of the inner for loop (lines 224-229 and 240-245);
\* st = [j, count, d].
MondaysStep(days) ==
    [st \in [j : Int, count : Int, d : Int] |->
        IF st.j <= days
        THEN [j |-> st.j + 1,
              count |-> IF getDay(st.d) = 1 THEN st.count + 1 ELSE st.count,
              d |-> setDate(st.d, st.j)]
        ELSE st]

\* The inner loop over the days 2..days of the month of d and the test after
\* it (lines 224-231 and 240-247): the count afterwards.
MondaysLoop(days, count, d) ==
    LET st == Repeat(MondaysStep(days), days - 1,
                     [j |-> 2, count |-> count, d |-> d])
    IN  IF getDay(st.d) = 1 THEN st.count + 1 ELSE st.count

\* One pass of the loop over the months before the date's month
\* (lines 217-235); st = [i, count].
WeekMonthsStep(month, year) ==
    [st \in [i : Int, count : Int] |->
        IF st.i < month
        THEN [i |-> st.i + 1,
              count |-> MondaysLoop(getDate(NewDate(year, st.i + 1, 0)),
                                    st.count, NewDate(year, st.i, 1))]
        ELSE st]

\* Lines 217-249, from the initial value of count.
WeekNumberFrom(count, t) ==
    LET year == getFullYear(t)
        month == getMonth(t)
        st == Repeat(WeekMonthsStep(month, year), month,
                     [i |-> 0, count |-> count])
    IN  MondaysLoop(getDate(t), st.count, NewDate(year, month, 1))

\* getWeekNumberByDate with the counter started at 1 whatever the weekday of
\* January 1.
getWeekNumberByDateFromOne(t) == WeekNumberFrom(1, t)

getWeekNumberByDate(t) ==
    LET dayName == getDay(NewDate(getFullYear(t), 0, 1))
    IN  WeekNumberFrom(IF dayName # 1 THEN 1 ELSE 0, t)

CallGetWeekNumberByDate ==
    \E t \in MidnightDates :
        /\ call = "none"
        /\ call' = "getWeekNumberByDate"
        /\ args' = [date |-> t]
        /\ heap' = [date |-> t]
        /\ ret' = JSNumber(getWeekNumberByDate(t))

(***************************************************************************)
(* getNextFridayThe13th(date)                                              *)
(* The result is a record: ret names the returned object ("date", "copy")  *)
(* or is "undefined" when the function falls off its end; date and copy    *)
(* are the time values the two objects hold when the function returns.     *)
(***************************************************************************)
\* One pass of the loop of lines 267-272; st = [i, date, returned].
F13DateStep(days) ==
    [st \in [i : Int, date : Int, returned : BOOLEAN] |->
        IF st.returned \/ st.i > days THEN st
        ELSE IF getDay(setDate(st.date, st.i)) = 5 /\ st.i = 13
        THEN [i |-> st.i, date |-> setDate(st.date, st.i), returned |-> TRUE]
        ELSE [i |-> st.i + 1, date |-> setDate(st.date, st.i), returned |-> FALSE]]

\* One pass of the loop of lines 277-282; st = [j, copy, returned].
F13DaysStep(days) ==
    [st \in [j : Int, copy : Int, returned : BOOLEAN] |->
        IF st.returned \/ st.j > days THEN st
        ELSE IF getDay(setDate(st.copy, st.j)) = 5 /\ st.j = 13
        THEN [j |-> st.j, copy |-> setDate(st.copy, st.j), returned |-> TRUE]
        ELSE [j |-> st.j + 1, copy |-> setDate(st.copy, st.j), returned |-> FALSE]]

\* One pass of the loop of lines 274-283; st = [i, copy, returned].
F13MonthsStep ==
    [st \in [i : Int, copy : Int, returned : BOOLEAN] |->
        IF st.returned \/ ~(st.i < 11) THEN st
        ELSE LET days == getDate(NewDate(getFullYear(st.copy),
                                         getMonth(st.copy), 0))
                 r == Repeat(F13DaysStep(days), days,
                             [j |-> 1, copy |-> setMonth(st.copy, st.i),
                              returned |-> FALSE])
             IN  [i |-> st.i + 1, copy |-> r.copy, returned |-> r.returned]]

getNextFridayThe13th(t) ==
    LET day == getDate(t)
        days == getDate(NewDate(getFullYear(t), getMonth(t) + 1, 0))
        first == Repeat(F13DateStep(days), days - day,
                        [i |-> day + 1, date |-> t, returned |-> FALSE])
        month == getMonth(t)
        second == Repeat(F13MonthsStep, 10 - month,
                         [i |-> month + 1, copy |-> t, returned |-> FALSE])
    IN  IF first.returned
        THEN [ret |-> "date", date |-> first.date, copy |-> t]
        ELSE IF second.returned
        THEN [ret |-> "copy", date |-> first.date, copy |-> second.copy]
        ELSE [ret |-> "undefined", date |-> first.date,
              copy |-> second.copy]

CallGetNextFridayThe13th ==
    \E t \in MidnightDates :
        /\ call = "none"
        /\ call' = "getNextFridayThe13th"
        /\ args' = [date |-> t]
        /\ \E r \in {getNextFridayThe13th(t)} :
               /\ heap' = [date |-> r.date, copy |-> r.copy]
               /\ ret' = IF r.ret = "undefined" THEN JSUndefined
                         ELSE JSObject(r.ret)

(***************************************************************************)
(* JavaScript strings and the conversions getWorkSchedule uses.            *)
(***************************************************************************)
Digits == <<"0", "1", "2", "3", "4", "5", "6", "7", "8", "9">>

\* String(n) of a non-negative integer: its decimal digits.
RECURSIVE String(_)
String(n) ==
    IF n < 10 THEN <<Digits[n + 1]>>
    ELSE String(n \div 10) \o <<Digits[(n % 10) + 1]>>

\* s.padStart(len, ch)
RECURSIVE padStart(_, _, _)
padStart(s, len, ch) ==
    IF Len(s) >= len THEN s ELSE padStart(<<ch>> \o s, len, ch)

\* Number(s) of a string of decimal digits; the empty string gives 0.
RECURSIVE Number(_)
Number(s) ==
    IF s = <<>> THEN 0
    ELSE Number(SubSeq(s, 1, Len(s) - 1)) * 10
             + (CHOOSE n \in 0..9 : Digits[n + 1] = s[Len(s)])

\* s.split(sep) for a one-character separator: the pieces between the
\* separators, in order.
RECURSIVE SplitFrom(_, _, _, _)
SplitFrom(s, sep, k, piece) ==
    IF k > Len(s) THEN <<piece>>
    ELSE IF s[k] = sep THEN <<piece>> \o SplitFrom(s, sep, k + 1, <<>>)
    ELSE SplitFrom(s, sep, k + 1, Append(piece, s[k]))

split(s, sep) == SplitFrom(s, sep, 1, <<>>)

\* The 'DD-MM-YYYY' string of the calendar day with day number d: the format
\* of the period's start and end (typedef DatePeriod) and of the results.
DateString(d) ==
    LET dd == DateFromDay(d)
        mm == MonthFromDay(d) + 1
        yyyy == YearFromDay(d)
    IN  <<Digits[(dd \div 10) + 1], Digits[(dd % 10) + 1], "-",
          Digits[(mm \div 10) + 1], Digits[(mm % 10) + 1], "-",
          Digits[(yyyy \div 1000) + 1], Digits[((yyyy \div 100) % 10) + 1],
          Digits[((yyyy \div 10) % 10) + 1], Digits[(yyyy % 10) + 1]>>

(***************************************************************************)
(* getWorkSchedule(period, countWorkDays, countOffDays)                    *)
(***************************************************************************)
\* The string pushed at lines 353 and 375.
ScheduleEntry(day, m, year) ==
    padStart(String(day), 2, "0") \o <<"-">>
        \o padStart(String(IF m >= 10 THEN m ELSE m + 1), 2, "0") \o <<"-">>
        \o String(year)

\* month[0] == "0" ? Number(month) - 1 : Number(month)
MonthIndex(month) ==
    IF month[1] = "0" THEN Number(month) - 1 ELSE Number(month)

\* One pass of the loop of lines 347-362; st = [j, start, count, schedule].
ScheduleDaysStep(days, i, year, countWorkDays, countOffDays) ==
    [st \in [j : Int, start : Int, count : Int,
               schedule : Seq(Seq(STRING))] |->
        IF st.j <= days
        THEN IF st.count + 1 >= countWorkDays
             THEN [j |-> st.j + countOffDays + 1,
                   start |-> IF st.j + countOffDays > days
                             THEN st.start + (st.j + countOffDays - days)
                             ELSE st.start,
                   count |-> 0,
                   schedule |-> Append(st.schedule, ScheduleEntry(st.j, i, year))]
             ELSE [j |-> st.j + 1,
                   start |-> st.start,
                   count |-> st.count + 1,
                   schedule |-> Append(st.schedule, ScheduleEntry(st.j, i, year))]
        ELSE st]

\* One pass of the loop of lines 343-364; st = [i, start, count, schedule].
ScheduleMonthsStep(month, year, countWorkDays, countOffDays) ==
    [st \in [i : Int, start : Int, count : Int,
               schedule : Seq(Seq(STRING))] |->
        IF st.i < month
        THEN LET days == getDate(NewDate(year, st.i + 1, 0))
                 r == Repeat(ScheduleDaysStep(days, st.i, year, countWorkDays, countOffDays),
                             days - st.start + 1,
                             [j |-> st.start, start |-> st.start,
                              count |-> st.count, schedule |-> st.schedule])
             IN  [i |-> st.i + 1, start |-> r.start, count |-> r.count,
                  schedule |-> r.schedule]
        ELSE st]

\* ScheduleLastStep with the test count > countWorkDays: one work day too
\* many in every cycle.
ScheduleLastStepLate(end, month, year, countWorkDays, countOffDays) ==
    [st \in [i : Int, count : Int, sch : Seq(Seq(STRING))] |->
        IF st.i <= end
        THEN IF st.count + 1 > countWorkDays
             THEN [i |-> st.i + countOffDays + 1, count |-> 0,
                   sch |-> Append(st.sch, ScheduleEntry(st.i, month, year))]
             ELSE [i |-> st.i + 1, count |-> st.count + 1,
                   sch |-> Append(st.sch, ScheduleEntry(st.i, month, year))]
        ELSE st]

\* One pass of the loop of lines 367-383; st = [i, count, sch].
ScheduleLastStep(end, month, year, countWorkDays, countOffDays) ==
    [st \in [i : Int, count : Int, sch : Seq(Seq(STRING))] |->
        IF st.i <= end
        THEN IF st.count + 1 >= countWorkDays
             THEN [i |-> st.i + countOffDays + 1, count |-> 0,
                   sch |-> Append(st.sch, ScheduleEntry(st.i, month, year))]
             ELSE [i |-> st.i + 1, count |-> st.count + 1,
                   sch |-> Append(st.sch, ScheduleEntry(st.i, month, year))]
        ELSE st]

\* Lines 341-384: the two loops, from the values parsed out of the period.
ScheduleLoops(start, end, year, monthStart, month, countWorkDays, countOffDays) ==
    LET first == Repeat(ScheduleMonthsStep(month, year, countWorkDays, countOffDays),
                        month - monthStart,
                        [i |-> monthStart, start |-> start, count |-> 0,
                         schedule |-> <<>>])
        last == Repeat(ScheduleLastStep(end, month, year, countWorkDays, countOffDays),
                       end - first.start + 1,
                       [i |-> first.start, count |-> first.count,
                        sch |-> <<>>])
    IN  first.schedule \o last.sch

getWorkSchedule(period, countWorkDays, countOffDays) ==
    CHOOSE out \in {
        ScheduleLoops(start, end, year, monthStart, month,
                      countWorkDays, countOffDays) :
        start \in {Number(split(period.start, "-")[1])},
        end \in {Number(split(period.end, "-")[1])},
        year \in {Number(split(period.end, "-")[3])},
        monthStart \in {MonthIndex(split(period.start, "-")[2])},
        month \in {MonthIndex(split(period.end, "-")[2])}} : TRUE

\* startDay and endDay are the day numbers of the calendar days the two
\* strings of the period denote.
CallGetWorkSchedule ==
    \E startDay \in ScheduleStartDays, span \in 0..MaxSpan,
       countWorkDays \in 1..MaxWorkDays, countOffDays \in 1..MaxOffDays :
        /\ call = "none"
        /\ call' = "getWorkSchedule"
        /\ \E period \in {[start |-> DateString(startDay),
                           end |-> DateString(startDay + span)]} :
               /\ args' = [period |-> period,
                           startDay |-> startDay,
                           endDay |-> startDay + span,
                           countWorkDays |-> countWorkDays,
                           countOffDays |-> countOffDays]
               /\ ret' = JSArray(getWorkSchedule(period, countWorkDays,
                                                 countOffDays))
        /\ heap' = <<>>

Init ==
    /\ call = "none"
    /\ args = <<>>
    /\ heap = <<>>
    /\ ret = JSUndefined

\* The caller drops the result and the objects of the finished call.
Return ==
    /\ call # "none"
    /\ call' = "none"
    /\ args' = <<>>
    /\ heap' = <<>>
    /\ ret' = JSUndefined

Next ==
    \/ CallGetNextFriday
    \/ CallGetQuarter
    \/ CallGetCountDaysInMonth
    \/ CallIsLeapYear
    \/ CallGetCountWeekendsInMonth
    \/ CallGetWeekNumberByDate
    \/ CallGetNextFridayThe13th
    \/ CallGetWorkSchedule
    \/ Return

Spec == Init /\ [][Next]_vars

(***************************************************************************)
(* Properties.                                                             *)
(***************************************************************************)
\* The work days of the cycle among the days d..endDay, as 'DD-MM-YYYY'
\* strings in ascending order.
RECURSIVE CycleDays(_, _, _, _, _)
CycleDays(d, startDay, endDay, workDays, offDays) ==
    IF d > endDay THEN <<>>
    ELSE (IF (d - startDay) % (workDays + offDays) < workDays
          THEN <<DateString(d)>> ELSE <<>>)
         \o CycleDays(d + 1, startDay, endDay, workDays, offDays)

\* C1: getWorkSchedule returns exactly the ascending list of the days d of
\* [period.start, period.end] with (d - start) mod (workDays + offDays) <
\* workDays, each formatted DD-MM-YYYY with its own month and year, also when
\* the period spans several months or crosses a year boundary.
C1_ScheduleIsCycleDays ==
    call = "getWorkSchedule" =>
        ret.value = CycleDays(args.startDay, args.startDay, args.endDay,
                        args.countWorkDays, args.countOffDays)

\* C2: the date getNextFriday returns is a Friday and lies between 1 and 7
\* calendar days after the input.
C2_NextFridayIsEarliestFriday ==
    call = "getNextFriday" =>
        /\ getDay(heap[ret.value]) = 5
        /\ Day(heap[ret.value]) - Day(args.date) \in 1..7

\* The 13th of the month i months after January of FirstYear.
Thirteenth(i) == MakeDay(FirstYear, i, 13)

\* The earliest day after day d that is the 13th of its month and a Friday.
NextFriday13After(d) ==
    LET i == CHOOSE k \in 0..(12 * (LastYear - FirstYear + 3)) :
                 /\ Thirteenth(k) > d
                 /\ (Thirteenth(k) + 4) % 7 = 5
                 /\ \A l \in 0..(k - 1) :
                        ~(Thirteenth(l) > d /\ (Thirteenth(l) + 4) % 7 = 5)
    IN  Thirteenth(i)

\* C3: getNextFridayThe13th always returns a date, and that date is the
\* earliest calendar day strictly after the input that is the 13th of its
\* month and a Friday, in the input's year or a following one.
C3_NextFriday13Found ==
    call = "getNextFridayThe13th" =>
        /\ ret.type = "object"
        /\ Day(heap[ret.value]) = NextFriday13After(Day(args.date))

\* C4: the result of getQuarter depends only on the calendar month of the
\* date: months 1-3 give 1, 4-6 give 2, 7-9 give 3, 10-12 give 4.
C4_QuarterByMonth ==
    call = "getQuarter" =>
        ret.value = (MonthFromDay(Day(args.date)) \div 3) + 1

\* C5: every string getWorkSchedule returns denotes an existing calendar
\* date within [period.start, period.end], and the array is strictly
\* increasing in calendar order.
C5_ScheduleDatesValidAndIncreasing ==
    call = "getWorkSchedule" =>
        \E days \in [1..Len(ret.value) -> args.startDay..args.endDay] :
            /\ \A k \in 1..Len(ret.value) : ret.value[k] = DateString(days[k])
            /\ \A k \in 1..(Len(ret.value) - 1) : days[k] < days[k + 1]

\* C6: getNextFriday and getNextFridayThe13th leave the caller's Date object
\* unchanged and return a separate object.
C6_ArgumentUnchanged ==
    call \in {"getNextFriday", "getNextFridayThe13th"} =>
        /\ heap.date = args.date
        /\ ret.value # "date"

\* C7: getWeekNumberByDate returns c0 plus the number of Mondays among the
\* days from January 1 of the date's year up to and including the date, where
\* c0 is 1 if January 1 is not a Monday and 0 otherwise.
C7_WeekNumberCountsMondays ==
    call = "getWeekNumberByDate" =>
        LET day == Day(args.date)
            jan1 == MakeDay(YearFromDay(day), 0, 1)
            c0 == IF (jan1 + 4) % 7 # 1 THEN 1 ELSE 0
        IN  ret.value = c0 + Cardinality({d \in jan1..day : (d + 4) % 7 = 1})

\* A date late in a year whose January 1 is a Monday and a date late in a
\* year whose January 1 is not: the scan has crossed all month boundaries.
C7_Witness ==
    /\ call = "getWeekNumberByDate"
    /\ ret.value = 53
    /\ getMonth(args.date) = 11
    /\ getDay(NewDate(getFullYear(args.date), 0, 1)) = 1

\* The lengths of the months of a common year.
CommonMonthLength == <<31, 28, 31, 30, 31, 30, 31, 31, 30, 31, 30, 31>>

\* C8: getCountDaysInMonth(2, y) is 29 exactly when isLeapYear of a date in
\* year y is true and 28 otherwise; for every other month the count is the
\* same constant (30 or 31) in every year.
C8_DaysInMonthAgreesWithLeapYear ==
    /\ call = "getCountDaysInMonth" =>
           IF args.month = 2
           THEN \A m \in 0..11 :
                    ret.value = IF isLeapYear(NewDate(args.year, m, 1))
                          THEN 29 ELSE 28
           ELSE /\ ret.value = CommonMonthLength[args.month]
                /\ ret.value \in {30, 31}
    /\ call = "isLeapYear" =>
           ret.value = (getCountDaysInMonth(2, getFullYear(args.date)) = 29)

\* February of a century year that is not a leap year.
C8_Witness ==
    /\ call = "getCountDaysInMonth"
    /\ args.month = 2
    /\ args.year % 100 = 0
    /\ ret.value = 28

\* C9: getCountWeekendsInMonth returns the number of days of the month,
\* from the 1st to the last, whose weekday is Saturday or Sunday.
C9_WeekendsCounted ==
    call = "getCountWeekendsInMonth" =>
        LET first == MakeDay(args.year, args.month - 1, 1)
            last == MakeDay(args.year, args.month, 1) - 1
        IN  ret.value = Cardinality({d \in first..last :
                                   (d + 4) % 7 = 0 \/ (d + 4) % 7 = 6})

\* A month whose first and last days both fall on a weekend.
C9_Witness ==
    /\ call = "getCountWeekendsInMonth"
    /\ ret.value = 10
    /\ (MakeDay(args.year, args.month - 1, 1) + 4) % 7 \in {0, 6}
    /\ (MakeDay(args.year, args.month, 1) - 1 + 4) % 7 \in {0, 6}

\* The period lies within one calendar month.
SingleMonth ==
    /\ YearFromDay(args.startDay) = YearFromDay(args.endDay)
    /\ MonthFromDay(args.startDay) = MonthFromDay(args.endDay)

\* The days of month start..end of the form start + k*(w+o) + r, 0 <= r < w,
\* in ascending order, as strings of the month of firstDay.
RECURSIVE SingleMonthDays(_, _, _, _, _, _)
SingleMonthDays(dd, start, end, firstDay, w, o) ==
    IF dd > end THEN <<>>
    ELSE (IF \E k \in 0..31, r \in 0..(w - 1) : dd = start + k * (w + o) + r
          THEN <<DateString(firstDay + (dd - start))>> ELSE <<>>)
         \o SingleMonthDays(dd + 1, start, end, firstDay, w, o)

\* C10: for a period within one calendar month getWorkSchedule returns
\* exactly the days start + k*(workDays+offDays) + r with 0 <= r < workDays
\* that are <= end, ascending, formatted with the period's month and year.
C10_SingleMonthSchedule ==
    (call = "getWorkSchedule" /\ SingleMonth) =>
        ret.value = SingleMonthDays(DateFromDay(args.startDay),
                              DateFromDay(args.startDay),
                              DateFromDay(args.endDay),
                              args.startDay,
                              args.countWorkDays, args.countOffDays)

\* A period within October, November or December that covers more than one
\* whole cycle of two work days and two days off: four work days.
C10_Witness ==
    /\ call = "getWorkSchedule"
    /\ SingleMonth
    /\ MonthFromDay(args.startDay) >= 9
    /\ args.countWorkDays = 2
    /\ args.countOffDays = 2
    /\ args.endDay - args.startDay >= 5
    /\ Len(ret.value) = 4

====
